---- MODULE Spec2Model ----
(***************************************************************************)
(* Model of the authentication service of rust-auth-boilerplate:           *)
(*   src/src/routes/auth.rs   register, login, forgot_password,            *)
(*                            reset_password                               *)
(*   src/src/auth/jwt.rs      Claims::new, JwtService                      *)
(*   src/src/auth/guard.rs    AuthenticatedUser::from_request              *)
(*   src/src/models/user.rs   User::hash_password, User::verify_password   *)
(*   src/src/migrations.rs    the users table and its UNIQUE email         *)
(*                                                                         *)
(* Every handler is cut at its awaits on the store: one action per store   *)
(* call, together with the local computation that follows it.  Requests    *)
(* run on the processes of Procs and interleave freely between awaits.     *)
(* A store call may fail (fault = "db"); hashing and signing may fail      *)
(* (fault = "hash", "jwt"): the handlers have a branch for each.           *)
(***************************************************************************)
EXTENDS Integers, Sequences, FiniteSets, TLC

\* ------------------------------------------------------------------ bounds

\* Requests begun in one behaviour.
MaxReqs == 4

\* Rows the password_reset_tokens table may hold.
MaxTokens == 2

\* Session tokens the clients hold.
MaxHeld == 2

\* Concurrent request handlers.
Procs == {"p1", "p2"}

\* ------------------------------------------------------- program constants

\* routes/auth.rs:30, 272: minimum password length.
MinPasswordLen == 6

\* routes/auth.rs:218: Duration::hours(1), in seconds.
ResetTtl == 3600

\* auth/jwt.rs:15: Duration::hours(24), in seconds.
JwtTtl == 86400

\* auth/jwt.rs:51: Validation::default() accepts an exp up to 60 s in the past.
Leeway == 60

\* ------------------------------------------------------------ input domains

\* Emails are strings of characters; EmailBad has no '@'.
EmailA == <<"a", "@", "b">>
EmailC == <<"c", "@", "d">>
EmailBad == <<"a", "b">>
Emails == {EmailA, EmailC, EmailBad}

\* "short" has 5 characters, the others 7.
Passwords == {"short", "secret1", "secret2", "secret3"}

\* The instants the wall clock takes around a reset token's expiry ...
ResetInstants == {0, ResetTtl, ResetTtl + 1}

\* ... and around a session token's.
JwtInstants == {0, JwtTtl, JwtTtl + Leeway, JwtTtl + Leeway + 1}

DbFaults == {"none", "db"}

\* ------------------------------------------------------------------- state

VARIABLES
    users,      \* table users: rows [id, email, password_hash, created_at]
                \* (updated_at is written and never read: left out)
    tokens,     \* table password_reset_tokens: rows [user_id, token, expires_at, used]
    now,        \* the wall clock, seconds
    pc,         \* per process: "idle" or the await the handler stands at
    req,        \* per process: the request being (or last) handled
    loc,        \* per process: the handler's local variables
    resp,       \* per process: the response of the last completed request
    pred,       \* per process: the processes whose request had returned when this one began
    nreq,       \* requests begun so far
    held,       \* session tokens issued to clients: [sub, token]
    guard,      \* the last evaluation of the authorization guard: [header, outcome, at]
    env,        \* the process environment: the set of <<name, value>> it defines
    latest      \* history: the processes whose current request made the latest
                \* password update of its user (update), and those whose current
                \* request had returned when the guard was last evaluated (guard)

vars == <<users, tokens, now, pc, req, loc, resp, pred, nreq, held, guard, env, latest>>

\* ----------------------------------------------------------------- helpers

\* A test that finds the character in every text (seeded fault).
Contains_Always(s, c) == TRUE

\* str::contains(char)
Contains(s, c) == \E i \in 1..Len(s) : s[i] = c

\* Uuid::to_string: a string, not the uuid itself.
UuidToString(u) == [str |-> u]

\* DateTime::to_rfc3339
ToRfc3339(t) == [rfc3339 |-> t]

\* bcrypt::hash(password, DEFAULT_COST): the hash carries what verify needs.
hash_password(password) == [bcrypt |-> password]

\* bcrypt::verify(password, hash)
verify_password(password, hash) == hash.bcrypt = password

NoRow == [none |-> TRUE]
NoResp == [status |-> 0, body |-> [none |-> TRUE]]
\* The Authorization header of a request: absent, or a text followed by a token.
NoHeader == [some |-> FALSE, text |-> <<>>, jwt |-> <<>>]
Header(text, jwt) == [some |-> TRUE, text |-> text, jwt |-> jwt]

NoReq ==
    [op |-> "none", email |-> <<>>, password |-> "", token |-> NoRow, at |-> 0,
     header |-> NoHeader]
NoLoc == [user |-> NoRow, tok |-> NoRow, hash |-> NoRow, log |-> <<>>, sql |-> <<>>]

\* One statement sent to the store and whether it returned Ok; loc.sql holds
\* the statements of a request in the order they were sent.
Stmt(name, ok) == <<[stmt |-> name, ok |-> ok]>>

\* status::Custom(status, Json(json!({"error": msg})))
ErrorResp(status, msg) == [status |-> status, body |-> [error |-> msg]]

\* eprintln!("Database error: {}", e)
DbErrorLine == <<"Database error">>

\* SELECT ... FROM users WHERE email = $1, fetch_optional
FindUserByEmail(email) ==
    IF \E u \in users : u.email = email
    THEN CHOOSE u \in users : u.email = email
    ELSE NoRow

\* gen_random_uuid(): an id no row has.
FreshUserId == Cardinality(users) + 1

\* The public fields of a user in a response body.
PublicUser(u) ==
    [id |-> UuidToString(u.id), email |-> u.email, created_at |-> ToRfc3339(u.created_at)]

\* One request's completion: the response is stored, the handler is idle again.
Finish(p, r) ==
    /\ pc' = [pc EXCEPT ![p] = "idle"]
    /\ resp' = [resp EXCEPT ![p] = r]

\* A request arrives at an idle process.
Arrive(p, r) ==
    /\ pc[p] = "idle"
    /\ nreq < MaxReqs
    /\ nreq' = nreq + 1
    /\ req' = [req EXCEPT ![p] = r]
    /\ pred' = [q \in Procs |->
                 IF q = p
                 THEN {o \in Procs \ {p} : pc[o] = "idle" /\ resp[o] # NoResp}
                 ELSE pred[q] \ {p}]
    /\ latest' = [update |-> latest.update \ {p}, guard |-> latest.guard \ {p}]

NoGuard == [header |-> [some |-> FALSE, text |-> <<>>, jwt |-> <<>>],
            outcome |-> [kind |-> "none"], at |-> 0]

\* The service's signing secret (ROCKET_JWT_SECRET) and a key that is not it.
Secret == "secret-key"
OtherSecret == "other-key"

\* The environments main starts in: it requires ROCKET_DATABASE_URL
\* (main.rs:30-31) and does not read ROCKET_JWT_SECRET.
Envs == {{<<"ROCKET_JWT_SECRET", Secret>>}, {}}

\* std::env::var(name)
EnvVar(name) ==
    IF \E e \in env : e[1] = name
    THEN [ok |-> TRUE, value |-> (CHOOSE e \in env : e[1] = name)[2]]
    ELSE [ok |-> FALSE]

\* The launched service on an empty store, the signing secret configured.
Init ==
    /\ env = {<<"ROCKET_JWT_SECRET", Secret>>}
    /\ users = {}
    /\ tokens = {}
    /\ now = 0
    /\ pc = [p \in Procs |-> "idle"]
    /\ req = [p \in Procs |-> NoReq]
    /\ loc = [p \in Procs |-> NoLoc]
    /\ resp = [p \in Procs |-> NoResp]
    /\ pred = [p \in Procs |-> {}]
    /\ nreq = 0
    /\ held = {}
    /\ guard = NoGuard
    /\ latest = [update |-> {}, guard |-> {}]

\* The launched service in any environment main starts in.
InitEnv ==
    /\ env \in Envs
    /\ users = {}
    /\ tokens = {}
    /\ now = 0
    /\ pc = [p \in Procs |-> "idle"]
    /\ req = [p \in Procs |-> NoReq]
    /\ loc = [p \in Procs |-> NoLoc]
    /\ resp = [p \in Procs |-> NoResp]
    /\ pred = [p \in Procs |-> {}]
    /\ nreq = 0
    /\ held = {}
    /\ guard = NoGuard
    /\ latest = [update |-> {}, guard |-> {}]

\* The clock advances to a later one of the instants.
Tick(instants) ==
    /\ \E t \in instants : t > now /\ now' = t
    /\ UNCHANGED <<users, tokens, pc, req, loc, resp, pred, nreq, held, guard, env, latest>>

\* ---------------------------------------------------------------- register

InvalidEmailResp == ErrorResp(400, "Invalid email format")
ShortPasswordResp == ErrorResp(400, "Password must be at least 6 characters long")
DbErrorResp == ErrorResp(500, "Database error occurred")
ConflictResp == ErrorResp(409, "User with this email already exists")
HashFailedResp == ErrorResp(500, "Failed to hash password")
CreateFailedResp == ErrorResp(500, "Failed to create user")
CreatedResp(user) ==
    [status |-> 201,
     body |-> [message |-> "User registered successfully", user |-> PublicUser(user)]]

\* register, up to the existence check (routes/auth.rs:15-64).
RegisterBegin(p, email, password, fault) ==
    /\ Arrive(p, [NoReq EXCEPT !.op = "register", !.email = email,
                               !.password = password])
    /\ UNCHANGED <<users, tokens, now, held, guard, env>>
    /\ IF ~Contains(email, "@")
       THEN /\ Finish(p, InvalidEmailResp)
            /\ loc' = [loc EXCEPT ![p] = NoLoc]
       ELSE IF Len(password) < MinPasswordLen
       THEN /\ Finish(p, ShortPasswordResp)
            /\ loc' = [loc EXCEPT ![p] = NoLoc]
       ELSE IF fault = "db"
       THEN /\ Finish(p, DbErrorResp)
            /\ loc' = [loc EXCEPT ![p] = [NoLoc EXCEPT !.log = DbErrorLine,
                                                      !.sql = Stmt("select_user", FALSE)]]
       ELSE IF FindUserByEmail(email) # NoRow
       THEN /\ Finish(p, ConflictResp)
            /\ loc' = [loc EXCEPT ![p] = [NoLoc EXCEPT !.user = FindUserByEmail(email),
                                                      !.sql = Stmt("select_user", TRUE)]]
       ELSE /\ pc' = [pc EXCEPT ![p] = "reg_insert"]
            /\ loc' = [loc EXCEPT ![p] = [NoLoc EXCEPT !.sql = Stmt("select_user", TRUE)]]
            /\ UNCHANGED resp

\* InsertUser on a table without the UNIQUE constraint (seeded fault).
InsertUser_NoUnique(email, password_hash) ==
    [id |-> Cardinality(users) + 1, email |-> email, password_hash |-> password_hash,
     created_at |-> now]

\* The INSERT of register: the table's UNIQUE email rejects a second row
\* (migrations.rs:13); NoRow is the statement's error.
InsertUser(email, password_hash) ==
    IF \E u \in users : u.email = email
    THEN NoRow
    ELSE [id |-> FreshUserId, email |-> email, password_hash |-> password_hash,
          created_at |-> now]

\* register, from hashing to the response (routes/auth.rs:66-113).
RegisterInsert(p, fault) ==
    /\ pc[p] = "reg_insert"
    /\ UNCHANGED <<tokens, now, req, pred, nreq, held, guard, env, latest>>
    /\ LET h == hash_password(req[p].password)
           row == InsertUser(req[p].email, h)
       IN IF fault = "hash"
          THEN /\ Finish(p, HashFailedResp)
               /\ UNCHANGED <<users, loc>>
          ELSE IF fault = "db" \/ row = NoRow
          THEN /\ Finish(p, CreateFailedResp)
               /\ loc' = [loc EXCEPT ![p].hash = h, ![p].log = DbErrorLine,
                                     ![p].sql = @ \o Stmt("insert_user", FALSE)]
               /\ UNCHANGED users
          ELSE /\ users' = users \cup {row}
               /\ loc' = [loc EXCEPT ![p].hash = h, ![p].user = row,
                                     ![p].sql = @ \o Stmt("insert_user", TRUE)]
               /\ Finish(p, CreatedResp(row))

\* ------------------------------------------------------------ token service

\* Header::default(): HS256.
JwtHeader == [alg |-> "HS256", typ |-> "JWT"]

\* The HMAC of the signing input under a key.
Sign(key, header, payload) == [key |-> key, over |-> <<header, payload>>]

\* jsonwebtoken::encode: the three parts of the token, in their order.
JwtEncode(header, claims, key) == <<header, claims, Sign(key, header, claims)>>

\* Claims::new with the reset token's lifetime in place of 24 hours (seeded fault).
NewClaims_OneHour(user_id) == [sub |-> user_id, exp |-> now + ResetTtl, iat |-> now]

\* Claims::new (auth/jwt.rs:13-22)
NewClaims(user_id) == [sub |-> user_id, exp |-> now + JwtTtl, iat |-> now]

\* std::env::var("ROCKET_JWT_SECRET"), read by every call of generate_token
\* and verify_token (auth/jwt.rs:30, 45).
JwtSecret == EnvVar("ROCKET_JWT_SECRET")

\* .expect("ROCKET_JWT_SECRET must be set in .env file") on an unset variable:
\* the handler panics, and the request is answered 500.
SecretPanicResp ==
    [status |-> 500, body |-> [panic |-> "ROCKET_JWT_SECRET must be set in .env file"]]

\* JwtService::generate_token (auth/jwt.rs:29-41), past the expect: callers
\* take the panic when JwtSecret is not ok.
generate_token(user_id) == JwtEncode(JwtHeader, NewClaims(user_id), JwtSecret.value)

\* jsonwebtoken::decode under Validation::default(): the three parts, the
\* algorithm, the signature, then exp against the clock.
JwtDecode(token, key) ==
    IF token.text # <<>> \/ Len(token.jwt) # 3
    THEN [ok |-> FALSE, err |-> "InvalidToken"]
    ELSE IF token.jwt[1].alg # "HS256"
    THEN [ok |-> FALSE, err |-> "InvalidAlgorithm"]
    ELSE IF token.jwt[3] # Sign(key, token.jwt[1], token.jwt[2])
    THEN [ok |-> FALSE, err |-> "InvalidSignature"]
    ELSE IF token.jwt[2].exp < now - Leeway
    THEN [ok |-> FALSE, err |-> "ExpiredSignature"]
    ELSE [ok |-> TRUE, claims |-> token.jwt[2]]

\* JwtService::verify_token (auth/jwt.rs:44-55), past the expect.
verify_token(token) == JwtDecode(token, JwtSecret.value)

\* ------------------------------------------------------------------- login

\* A mismatch answered in words of its own (seeded fault).
WrongPasswordResp_Distinct == ErrorResp(401, "Incorrect password")

InvalidCredentialsResp == ErrorResp(401, "Invalid email or password")
WrongPasswordResp == ErrorResp(401, "Invalid email or password")
TokenFailedResp == ErrorResp(500, "Failed to generate token")
LoginOkResp(user, token) ==
    [status |-> 200,
     body |-> [message |-> "Login successful", token |-> token, user |-> PublicUser(user)]]

\* login (routes/auth.rs:117-196): one store call, then local work only.
Login(p, email, password, fault) ==
    /\ Arrive(p, [NoReq EXCEPT !.op = "login", !.email = email, !.password = password])
    /\ UNCHANGED <<users, tokens, now, held, guard, env>>
    /\ LET user == FindUserByEmail(email)
       IN IF fault = "db"
          THEN /\ Finish(p, DbErrorResp)
               /\ loc' = [loc EXCEPT ![p] = [NoLoc EXCEPT !.log = DbErrorLine,
                                                         !.sql = Stmt("select_user", FALSE)]]
          ELSE IF user = NoRow
          THEN /\ Finish(p, InvalidCredentialsResp)
               /\ loc' = [loc EXCEPT ![p] = [NoLoc EXCEPT !.sql = Stmt("select_user", TRUE)]]
          ELSE IF ~verify_password(password, user.password_hash)
          THEN /\ Finish(p, WrongPasswordResp)
               /\ loc' = [loc EXCEPT ![p] = [NoLoc EXCEPT !.user = user,
                                                         !.sql = Stmt("select_user", TRUE)]]
          ELSE IF ~JwtSecret.ok
          THEN /\ Finish(p, SecretPanicResp)
               /\ loc' = [loc EXCEPT ![p] = [NoLoc EXCEPT !.user = user,
                                                         !.sql = Stmt("select_user", TRUE)]]
          ELSE IF fault = "jwt"
          THEN /\ Finish(p, TokenFailedResp)
               /\ loc' = [loc EXCEPT ![p] = [NoLoc EXCEPT !.user = user,
                                                         !.sql = Stmt("select_user", TRUE)]]
          ELSE /\ Finish(p, LoginOkResp(user, generate_token(UuidToString(user.id))))
               /\ loc' = [loc EXCEPT ![p] = [NoLoc EXCEPT !.user = user,
                                                         !.sql = Stmt("select_user", TRUE)]]

\* --------------------------------------------------------- forgot_password

\* Uuid::new_v4(): a uuid no reset token carries.
FreshTokenId == Cardinality(tokens) + 1

\* The used column of a row inserted without it.
TokenUsedDefault == FALSE

\* INSERT INTO password_reset_tokens (user_id, token, expires_at)
NewResetToken(user_id, token, expires_at) ==
    [user_id |-> user_id, token |-> token, expires_at |-> expires_at,
     used |-> TokenUsedDefault]

\* The token insert's failure surfaced to the caller (seeded fault).
ForgotInsertErrResp_Surfaced == ErrorResp(500, "Database error occurred")

ForgotGenericResp ==
    [status |-> 200,
     body |-> [message |-> "If the email exists, a password reset token has been sent."]]
ForgotInsertErrResp ==
    [status |-> 200,
     body |-> [message |-> "If the email exists, a password reset token has been sent."]]
ForgotCreatedResp(reset_token) ==
    [status |-> 200,
     body |-> [message |-> "Password reset token generated. Check your email.",
               token |-> reset_token]]

\* forgot_password, the user lookup (routes/auth.rs:200-215, 253-261).
ForgotBegin(p, email, fault) ==
    /\ Arrive(p, [NoReq EXCEPT !.op = "forgot", !.email = email])
    /\ UNCHANGED <<users, tokens, now, held, guard, env>>
    /\ LET user == FindUserByEmail(email)
       IN IF fault = "db" \/ user = NoRow
          THEN /\ Finish(p, ForgotGenericResp)
               /\ loc' = [loc EXCEPT ![p] = [NoLoc EXCEPT !.sql = Stmt("select_user", fault # "db")]]
          ELSE /\ Cardinality(tokens) + Cardinality({q \in Procs : pc[q] = "fp_insert"})
                    < MaxTokens
               /\ pc' = [pc EXCEPT ![p] = "fp_insert"]
               /\ loc' = [loc EXCEPT ![p] = [NoLoc EXCEPT !.user = user,
                                                         !.sql = Stmt("select_user", TRUE)]]
               /\ UNCHANGED resp

\* forgot_password, the token's creation (routes/auth.rs:216-251).
ForgotInsert(p, fault) ==
    /\ pc[p] = "fp_insert"
    /\ UNCHANGED <<users, now, req, pred, nreq, held, guard, env, latest>>
    /\ LET reset_token == UuidToString(FreshTokenId)
           expires_at == now + ResetTtl
           row == NewResetToken(loc[p].user.id, reset_token, expires_at)
       IN IF fault = "db"
          THEN /\ Finish(p, ForgotInsertErrResp)
               /\ loc' = [loc EXCEPT ![p].log = DbErrorLine,
                                     ![p].sql = @ \o Stmt("insert_token", FALSE)]
               /\ UNCHANGED tokens
          ELSE /\ tokens' = tokens \cup {row}
               /\ loc' = [loc EXCEPT ![p].tok = row,
                                     ![p].sql = @ \o Stmt("insert_token", TRUE)]
               /\ Finish(p, ForgotCreatedResp(reset_token))

\* ---------------------------------------------------------- reset_password

InvalidTokenResp == ErrorResp(400, "Invalid or expired reset token")
ExpiredResp == ErrorResp(400, "Reset token has expired")
AlreadyUsedResp == ErrorResp(400, "Reset token has already been used")
ResetFailedResp == ErrorResp(500, "Failed to reset password")
ResetOkResp == [status |-> 200, body |-> [message |-> "Password reset successfully"]]

\* SELECT ... FROM password_reset_tokens WHERE token = $1, fetch_optional
FindToken(token) ==
    IF \E t \in tokens : t.token = token
    THEN CHOOSE t \in tokens : t.token = token
    ELSE NoRow

\* A token refused from the instant expires_at on (seeded fault).
IsExpired_AtExpiry(reset_token) == reset_token.expires_at <= now

\* No expiry test at all (seeded fault).
IsExpired_Never(reset_token) == FALSE

\* The expiry comparison the wrong way round (seeded fault).
IsExpired_Reversed(reset_token) == reset_token.expires_at > now

\* reset_token.expires_at < Utc::now() (routes/auth.rs:311)
IsExpired(reset_token) == reset_token.expires_at < now

\* No used test at all (seeded fault).
IsUsed_Never(reset_token) == FALSE

\* reset_token.used (routes/auth.rs:321)
IsUsed(reset_token) == reset_token.used

\* reset_password, validation and the token lookup (routes/auth.rs:267-308).
ResetBegin(p, token, new_password, fault) ==
    /\ Arrive(p, [NoReq EXCEPT !.op = "reset", !.token = token,
                               !.password = new_password, !.at = now])
    /\ UNCHANGED <<users, tokens, now, held, guard, env>>
    /\ IF Len(new_password) < MinPasswordLen
       THEN /\ Finish(p, ShortPasswordResp)
            /\ loc' = [loc EXCEPT ![p] = NoLoc]
       ELSE IF fault = "db"
       THEN /\ Finish(p, DbErrorResp)
            /\ loc' = [loc EXCEPT ![p] = [NoLoc EXCEPT !.log = DbErrorLine,
                                                      !.sql = Stmt("select_token", FALSE)]]
       ELSE IF FindToken(token) = NoRow
       THEN /\ Finish(p, InvalidTokenResp)
            /\ loc' = [loc EXCEPT ![p] = [NoLoc EXCEPT !.sql = Stmt("select_token", TRUE)]]
       ELSE /\ pc' = [pc EXCEPT ![p] = "rp_check"]
            /\ loc' = [loc EXCEPT ![p] = [NoLoc EXCEPT !.tok = FindToken(token),
                                                      !.sql = Stmt("select_token", TRUE)]]
            /\ UNCHANGED resp

\* reset_password, the checks on the row read and the hashing
\* (routes/auth.rs:310-341).
ResetCheck(p, fault) ==
    /\ pc[p] = "rp_check"
    /\ UNCHANGED <<users, tokens, now, req, pred, nreq, held, guard, env, latest>>
    /\ IF IsExpired(loc[p].tok)
       THEN /\ Finish(p, ExpiredResp)
            /\ UNCHANGED loc
       ELSE IF IsUsed(loc[p].tok)
       THEN /\ Finish(p, AlreadyUsedResp)
            /\ UNCHANGED loc
       ELSE IF fault = "hash"
       THEN /\ Finish(p, HashFailedResp)
            /\ UNCHANGED loc
       ELSE /\ pc' = [pc EXCEPT ![p] = "rp_update"]
            /\ loc' = [loc EXCEPT ![p].hash = hash_password(req[p].password)]
            /\ UNCHANGED resp

\* The history once p has updated the password of its token's user.
LatestUpdate(p) ==
    [latest EXCEPT !.update =
        {o \in @ : loc[o].tok.user_id # loc[p].tok.user_id} \cup {p}]

\* The update without its WHERE clause (seeded fault).
UpdatePassword_AllUsers(id, password_hash) ==
    {[u EXCEPT !.password_hash = password_hash] : u \in users}

\* UPDATE users SET password_hash = $1 WHERE id = $2
UpdatePassword(id, password_hash) ==
    {IF u.id = id THEN [u EXCEPT !.password_hash = password_hash] ELSE u : u \in users}

\* The password update with its result dropped, as mark-used's is (seeded
\* fault): the handler goes on to mark-used when the update failed.
ResetUpdate_IgnoreFailure(p, fault) ==
    /\ pc[p] = "rp_update"
    /\ UNCHANGED <<tokens, now, req, resp, pred, nreq, held, guard, env>>
    /\ users' = IF fault = "db" THEN users
                ELSE UpdatePassword(loc[p].tok.user_id, loc[p].hash)
    /\ latest' = IF fault = "db" THEN latest ELSE LatestUpdate(p)
    /\ pc' = [pc EXCEPT ![p] = "rp_mark"]
    /\ loc' = [loc EXCEPT ![p].sql = @ \o Stmt("update_password", fault # "db")]

\* reset_password, the password update (routes/auth.rs:343-353, 369-377).
ResetUpdate(p, fault) ==
    /\ pc[p] = "rp_update"
    /\ UNCHANGED <<tokens, now, req, pred, nreq, held, guard, env>>
    /\ IF fault = "db"
       THEN /\ Finish(p, ResetFailedResp)
            /\ loc' = [loc EXCEPT ![p].log = DbErrorLine,
                                  ![p].sql = @ \o Stmt("update_password", FALSE)]
            /\ UNCHANGED <<users, latest>>
       ELSE /\ users' = UpdatePassword(loc[p].tok.user_id, loc[p].hash)
            /\ latest' = LatestUpdate(p)
            /\ pc' = [pc EXCEPT ![p] = "rp_mark"]
            /\ loc' = [loc EXCEPT ![p].sql = @ \o Stmt("update_password", TRUE)]
            /\ UNCHANGED resp

\* Mark-used keyed by the token's user instead of the token (seeded fault).
MarkUsed_AllOfUser(token) ==
    {IF \E o \in tokens : o.token = token /\ o.user_id = t.user_id
     THEN [t EXCEPT !.used = TRUE] ELSE t : t \in tokens}

\* Mark-used that writes nothing (seeded fault).
MarkUsed_NoOp(token) == tokens

\* UPDATE password_reset_tokens SET used = TRUE WHERE token = $1
MarkUsed(token) ==
    {IF t.token = token THEN [t EXCEPT !.used = TRUE] ELSE t : t \in tokens}

\* reset_password, mark-used and the response (routes/auth.rs:354-367): the
\* result of the update is dropped.
ResetMark(p, fault) ==
    /\ pc[p] = "rp_mark"
    /\ UNCHANGED <<users, now, req, pred, nreq, held, guard, env, latest>>
    /\ tokens' = IF fault = "db" THEN tokens ELSE MarkUsed(req[p].token)
    /\ loc' = [loc EXCEPT ![p].sql = @ \o Stmt("mark_used", fault # "db")]
    /\ Finish(p, ResetOkResp)

\* The tokens a reset_password request presents: the issued ones and one
\* that was never issued.
ResetTokens == {UuidToString(n) : n \in 0..MaxTokens}

\* ----------------------------------------------------- authorization guard

\* A header value is a text followed by a token (its parts; none: <<>>).
\* The text of a token is base64url and dots: it holds no space.
BearerPrefix == <<"B", "e", "a", "r", "e", "r", " ">>

\* A prefix test that accepts any scheme (seeded fault).
StartsWithBearer_AnyScheme(header) == TRUE

\* header.starts_with("Bearer ") (auth/guard.rs:30)
StartsWithBearer(header) ==
    /\ Len(header.text) >= Len(BearerPrefix)
    /\ SubSeq(header.text, 1, Len(BearerPrefix)) = BearerPrefix

\* &header[7..] (auth/guard.rs:35)
SkipBearer(header) ==
    [text |-> SubSeq(header.text, 8, Len(header.text)), jwt |-> header.jwt]

Unauthorized == [kind |-> "Error", status |-> 401]
Authenticated(user_id) == [kind |-> "Success", user_id |-> user_id]

\* verify_token panicked inside the guard: the request is answered 500.
Panicked == [kind |-> "Panic", status |-> 500]

\* A guard that also wants the subject's password unchanged since
\* registration: a reset revokes the sessions (seeded fault).
from_request_Revoking(header) ==
    IF ~header.some
    THEN Unauthorized
    ELSE IF ~StartsWithBearer(header)
    THEN Unauthorized
    ELSE IF ~JwtSecret.ok
    THEN Panicked
    ELSE LET r == verify_token(SkipBearer(header))
         IN IF /\ r.ok
               /\ \A u \in users : UuidToString(u.id) = r.claims.sub
                                     => u.password_hash = hash_password("secret1")
            THEN Authenticated(r.claims.sub)
            ELSE Unauthorized

\* AuthenticatedUser::from_request (auth/guard.rs:23-49)
from_request(header) ==
    IF ~header.some
    THEN Unauthorized
    ELSE IF ~StartsWithBearer(header)
    THEN Unauthorized
    ELSE IF ~JwtSecret.ok
    THEN Panicked
    ELSE LET r == verify_token(SkipBearer(header))
         IN IF r.ok THEN Authenticated(r.claims.sub) ELSE Unauthorized

\* The subjects session tokens are issued for.
Subjects == {UuidToString(1), UuidToString(2)}

\* What a client can make of a token it holds without the secret.
Forgeries(t) ==
    { t,
      <<t[1], [t[2] EXCEPT !.sub = UuidToString(9)], t[3]>>,
      <<t[1], [t[2] EXCEPT !.exp = t[2].exp + JwtTtl], t[3]>>,
      JwtEncode(t[1], t[2], OtherSecret),
      <<[alg |-> "none", typ |-> "JWT"], t[2], t[3]>>,
      <<t[1], t[2]>> }

\* The texts a header value begins with.
HeaderTexts ==
    { BearerPrefix,
      <<"b", "e", "a", "r", "e", "r", " ">>,
      <<"B", "a", "s", "i", "c", " ">>,
      <<"B", "e", "a", "r", "e", "r">>,
      BearerPrefix \o <<" ">>,
      <<>> }

\* The headers a request may carry.
Headers ==
    {NoHeader} \cup
    {Header(x, j) : x \in HeaderTexts,
                    j \in {<<>>} \cup UNION {Forgeries(h.token) : h \in held}}

\* A client obtains a session token for a subject.
IssueToken(s) ==
    /\ JwtSecret.ok
    /\ Cardinality(held) < MaxHeld
    /\ held' = held \cup {[sub |-> s, token |-> generate_token(s)]}
    /\ UNCHANGED <<users, tokens, now, pc, req, loc, resp, pred, nreq, guard, env, latest>>

\* A request with the header h reaches a guarded route.
Guard(h) ==
    /\ guard' = [header |-> h, outcome |-> from_request(h), at |-> now]
    /\ latest' = [latest EXCEPT !.guard = {p \in Procs : pc[p] = "idle" /\ resp[p] # NoResp}]
    /\ UNCHANGED <<users, tokens, now, pc, req, loc, resp, pred, nreq, held, env>>

\* ------------------------------------------------------------------ whoami

\* The handlers main mounts under /api/auth (main.rs:65-70): get_current_user
\* is not among them.
Mounted == {"register", "login", "forgot_password", "reset_password"}

\* Rocket's answer to a path no route matches.
RouteNotFoundResp == [status |-> 404, body |-> [catcher |-> "Not Found"]]

\* Rocket's answer when the guard fails with Status::Unauthorized.
UnauthorizedResp == [status |-> 401, body |-> [catcher |-> "Unauthorized"]]

UserNotFoundResp == ErrorResp(404, "User not found")
WhoamiOkResp(user) == [status |-> 200, body |-> [user |-> PublicUser(user)]]

\* SELECT ... FROM users WHERE id = $1, with the token's subject (a String)
\* bound to $1: the row whose id prints as that text.  A store that rejects
\* a text parameter for the uuid column is the fault "db" of the caller.
FindUserById(user_id) ==
    IF \E u \in users : UuidToString(u.id) = user_id
    THEN CHOOSE u \in users : UuidToString(u.id) = user_id
    ELSE NoRow

\* GET /api/auth/me with the header h: route dispatch, the guard, then
\* get_current_user (routes/auth.rs:382-426).
Whoami(p, h, fault) ==
    /\ Arrive(p, [NoReq EXCEPT !.op = "whoami", !.header = h])
    /\ UNCHANGED <<users, tokens, now, held, guard, env>>
    /\ IF "get_current_user" \notin Mounted
       THEN /\ Finish(p, RouteNotFoundResp)
            /\ loc' = [loc EXCEPT ![p] = NoLoc]
       ELSE LET user == from_request(h)
            IN IF user = Panicked
               THEN /\ Finish(p, SecretPanicResp)
                    /\ loc' = [loc EXCEPT ![p] = NoLoc]
               ELSE IF user = Unauthorized
               THEN /\ Finish(p, UnauthorizedResp)
                    /\ loc' = [loc EXCEPT ![p] = NoLoc]
               ELSE IF fault = "db"
               THEN /\ Finish(p, DbErrorResp)
                    /\ loc' = [loc EXCEPT ![p] = [NoLoc EXCEPT !.log = DbErrorLine,
                                                              !.sql = Stmt("select_user_by_id", FALSE)]]
               ELSE LET user_data == FindUserById(user.user_id)
                    IN /\ loc' = [loc EXCEPT ![p] = [NoLoc EXCEPT !.user = user_data,
                                                                 !.sql = Stmt("select_user_by_id", TRUE)]]
                       /\ IF user_data = NoRow
                          THEN Finish(p, UserNotFoundResp)
                          ELSE Finish(p, WhoamiOkResp(user_data))

\* The headers a client makes of the tokens its logins returned.
LoginHeaders ==
    {NoHeader} \cup
    {Header(BearerPrefix, resp[q].body.token) :
        q \in {o \in Procs : req[o].op = "login" /\ resp[o].status = 200}}

\* ------------------------------------------------------------ the workloads

\* Registrations: every email with a short and a valid password.
NextRegister ==
    \/ \E p \in Procs, e \in Emails, w \in {"short", "secret1"}, f \in DbFaults :
          RegisterBegin(p, e, w, f)
    \/ \E p \in Procs, f \in {"none", "db", "hash"} : RegisterInsert(p, f)

SpecRegister == Init /\ [][NextRegister]_vars

\* Logins against one registered account.
NextLogin ==
    \/ \E p \in Procs, f \in DbFaults : RegisterBegin(p, EmailA, "secret1", f)
    \/ \E p \in Procs, f \in {"none", "db", "hash"} : RegisterInsert(p, f)
    \/ \E p \in Procs, e \in {EmailA, EmailC}, w \in {"secret1", "secret2"},
          f \in {"none", "db", "jwt"} : Login(p, e, w, f)

SpecLogin == Init /\ [][NextLogin]_vars

\* Password resets for one registered account; faults are those of the store
\* and of hashing.
NextReset(dbFaults, hashFaults) ==
    \/ Tick(ResetInstants)
    \/ \E p \in Procs : RegisterBegin(p, EmailA, "secret1", "none")
    \/ \E p \in Procs : RegisterInsert(p, "none")
    \/ \E p \in Procs, e \in {EmailA, EmailC}, f \in dbFaults : ForgotBegin(p, e, f)
    \/ \E p \in Procs, f \in dbFaults : ForgotInsert(p, f)
    \/ \E p \in Procs, t \in ResetTokens, w \in {"short", "secret2", "secret3"}, f \in dbFaults :
          ResetBegin(p, t, w, f)
    \/ \E p \in Procs, f \in hashFaults : ResetCheck(p, f)
    \/ \E p \in Procs, f \in dbFaults : ResetUpdate(p, f)
    \/ \E p \in Procs, f \in dbFaults : ResetMark(p, f)

SpecReset == Init /\ [][NextReset(DbFaults, {"none", "hash"})]_vars

\* The same workload on a store that does not fail.
SpecResetOk == Init /\ [][NextReset({"none"}, {"none"})]_vars

\* The reset workload with logins of the account between its requests, by a
\* password that is the account's once a reset has set it.
NextResetLogin ==
    \/ NextReset(DbFaults, {"none", "hash"})
    \/ \E p \in Procs : Login(p, EmailA, "secret2", "none")

SpecResetLogin == Init /\ [][NextResetLogin]_vars

\* The password every account of the workloads is registered with.
RegisteredPassword == "secret1"

\* The service after register(a@b), register(c@d) and forgot_password(a@b),
\* all at instant 0 and all returned; nreq counts the requests from here on.
InitAccounts ==
    /\ env = {<<"ROCKET_JWT_SECRET", Secret>>}
    /\ users = {[id |-> 1, email |-> EmailA,
                 password_hash |-> hash_password(RegisteredPassword), created_at |-> 0],
                [id |-> 2, email |-> EmailC,
                 password_hash |-> hash_password(RegisteredPassword), created_at |-> 0]}
    /\ tokens = {NewResetToken(1, UuidToString(1), ResetTtl)}
    /\ now = 0
    /\ pc = [p \in Procs |-> "idle"]
    /\ req = [p \in Procs |-> NoReq]
    /\ loc = [p \in Procs |-> NoLoc]
    /\ resp = [p \in Procs |-> NoResp]
    /\ pred = [p \in Procs |-> {}]
    /\ nreq = 0
    /\ held = {}
    /\ guard = NoGuard
    /\ latest = [update |-> {}, guard |-> {}]

\* Resets of a@b's password and logins of both accounts; the store and the
\* hashing may fail in a reset.
NextAccounts ==
    \/ \E p \in Procs, w \in {"secret2", "secret3"}, f \in DbFaults :
          ResetBegin(p, UuidToString(1), w, f)
    \/ \E p \in Procs, f \in {"none", "hash"} : ResetCheck(p, f)
    \/ \E p \in Procs, f \in DbFaults : ResetUpdate(p, f)
    \/ \E p \in Procs, f \in DbFaults : ResetMark(p, f)
    \/ \E p \in Procs, e \in {EmailA, EmailC}, w \in {"secret1", "secret2", "secret3"} :
          Login(p, e, w, "none")

SpecAccounts == InitAccounts /\ [][NextAccounts]_vars

\* The instants around a reset token's and a session token's expiry.
SessionInstants == {0, ResetTtl, JwtTtl, JwtTtl + Leeway + 1}

\* Logins of a@b, resets of its password, and guarded requests carrying the
\* tokens the logins returned, as time passes.
NextSessions ==
    \/ Tick(SessionInstants)
    \/ \E p \in Procs, w \in {"secret1", "secret2"} : Login(p, EmailA, w, "none")
    \/ \E p \in Procs, f \in DbFaults : ResetBegin(p, UuidToString(1), "secret2", f)
    \/ \E p \in Procs, f \in {"none", "hash"} : ResetCheck(p, f)
    \/ \E p \in Procs, f \in DbFaults : ResetUpdate(p, f)
    \/ \E p \in Procs, f \in DbFaults : ResetMark(p, f)
    \/ \E h \in LoginHeaders : Guard(h)

SpecSessions == InitAccounts /\ [][NextSessions]_vars

\* The token service and the guard, on the tokens clients hold and forge.
NextToken ==
    \/ Tick(JwtInstants)
    \/ \E s \in Subjects : IssueToken(s)
    \/ \E h \in Headers : Guard(h)

SpecToken == Init /\ [][NextToken]_vars

\* A start in any environment, then logins and guarded requests.
NextStartup ==
    \/ \E p \in Procs : RegisterBegin(p, EmailA, "secret1", "none")
    \/ \E p \in Procs : RegisterInsert(p, "none")
    \/ \E p \in Procs, w \in {"secret1", "secret2"} : Login(p, EmailA, w, "none")
    \/ \E s \in Subjects : IssueToken(s)
    \/ \E h \in Headers : Guard(h)

SpecStartup == InitEnv /\ [][NextStartup]_vars

\* Register, login, then whoami with the token the login returned.
NextWhoami ==
    \/ \E p \in Procs : RegisterBegin(p, EmailA, "secret1", "none")
    \/ \E p \in Procs : RegisterInsert(p, "none")
    \/ \E p \in Procs, w \in {"secret1", "secret2"} : Login(p, EmailA, w, "none")
    \/ \E p \in Procs, h \in LoginHeaders, f \in DbFaults : Whoami(p, h, f)

SpecWhoami == Init /\ [][NextWhoami]_vars

\* The whole service: every operation on every input.  The workloads above
\* are its behaviours on the inputs they name.
Next ==
    \/ Tick(ResetInstants \cup JwtInstants)
    \/ \E p \in Procs, e \in Emails, w \in Passwords, f \in DbFaults : RegisterBegin(p, e, w, f)
    \/ \E p \in Procs, f \in {"none", "db", "hash"} : RegisterInsert(p, f)
    \/ \E p \in Procs, e \in Emails, w \in Passwords, f \in {"none", "db", "jwt"} :
          Login(p, e, w, f)
    \/ \E p \in Procs, e \in Emails, f \in DbFaults : ForgotBegin(p, e, f)
    \/ \E p \in Procs, f \in DbFaults : ForgotInsert(p, f)
    \/ \E p \in Procs, t \in ResetTokens, w \in Passwords, f \in DbFaults : ResetBegin(p, t, w, f)
    \/ \E p \in Procs, f \in {"none", "hash"} : ResetCheck(p, f)
    \/ \E p \in Procs, f \in DbFaults : ResetUpdate(p, f)
    \/ \E p \in Procs, f \in DbFaults : ResetMark(p, f)
    \/ \E s \in Subjects : IssueToken(s)
    \/ \E h \in Headers : Guard(h)
    \/ \E p \in Procs, h \in Headers \cup LoginHeaders, f \in DbFaults : Whoami(p, h, f)

Spec == Init /\ [][Next]_vars

\* ================================================================== claims

\* The request of p has returned: resp[p] answers req[p].
Done(p) == pc[p] = "idle" /\ resp[p] # NoResp

ValidPassword(w) == Len(w) >= MinPasswordLen

\* p and q are reset_password requests presenting the same token.
SameToken(p, q) ==
    /\ req[p].op = "reset"
    /\ req[q].op = "reset"
    /\ req[p].token = req[q].token

\* The password of a user changes only in ResetUpdate, which a request takes
\* from "rp_update" with the hash it computed: a request that is at neither
\* "rp_update" nor "rp_mark" and holds no hash has not changed a password.
WroteNoPassword(p) ==
    /\ pc[p] \notin {"rp_update", "rp_mark"}
    /\ loc[p].hash = NoRow

\* C1: of the reset_password requests that present one token, however they
\* interleave, at most one ends in success (SpecResetOk: the store never fails).
C1_AtMostOneRedemption ==
    \A p, q \in Procs :
        (/\ Done(p) /\ Done(q)
         /\ SameToken(p, q)
         /\ req[p].password # req[q].password
         /\ resp[p] = ResetOkResp
         /\ resp[q] = ResetOkResp) => p = q

\* C2: two reset_password calls with the same token and valid passwords, the
\* second begun after the first returned: the first, finding the token fresh
\* and unexpired, succeeds; the second is answered "already used" (or
\* "expired", once the clock has passed expires_at) and writes no password.
C2_SecondRedemptionRejected ==
    /\ \A p \in Procs :
          (/\ Done(p) /\ req[p].op = "reset" /\ ValidPassword(req[p].password)
           /\ loc[p].tok # NoRow
           /\ ~loc[p].tok.used
           /\ now <= loc[p].tok.expires_at) => resp[p] = ResetOkResp
    /\ \A p, q \in Procs :
          (/\ p \in pred[q]
           /\ SameToken(p, q)
           /\ ValidPassword(req[q].password)
           /\ resp[p] = ResetOkResp)
          => /\ WroteNoPassword(q)
             /\ Done(q) => resp[q] \in {AlreadyUsedResp, ExpiredResp}
             /\ (Done(q) /\ now <= FindToken(req[q].token).expires_at)
                    => resp[q] = AlreadyUsedResp

C2_Witness ==
    \E p, q \in Procs :
        /\ p \in pred[q]
        /\ SameToken(p, q)
        /\ ValidPassword(req[q].password)
        /\ req[q].password # req[p].password
        /\ resp[p] = ResetOkResp
        /\ Done(q)
        /\ resp[q] = AlreadyUsedResp
        /\ \E u \in users : u.id = loc[p].tok.user_id /\ u.password_hash = loc[p].hash

\* C3: a reset_password call that arrives later than its token's expires_at
\* never succeeds and writes no password; with a valid new password and the
\* token row read, its answer is "expired", used or not.
LateReset(p) ==
    /\ req[p].op = "reset"
    /\ FindToken(req[p].token) # NoRow
    /\ FindToken(req[p].token).expires_at < req[p].at

C3_LateRedemptionRejected ==
    \A p \in Procs :
        LateReset(p)
        => /\ WroteNoPassword(p)
           /\ Done(p) => resp[p].status \in {400, 500}
           /\ (Done(p) /\ ValidPassword(req[p].password) /\ loc[p].tok # NoRow)
                  => resp[p] = ExpiredResp

C3_Witness ==
    \E p \in Procs :
        /\ LateReset(p)
        /\ Done(p)
        /\ ValidPassword(req[p].password)
        /\ loc[p].tok # NoRow
        /\ ~loc[p].tok.used
        /\ resp[p] = ExpiredResp
        /\ \E u \in users : u.id = loc[p].tok.user_id
                            /\ u.password_hash = hash_password("secret1")

\* C4: the users table holds at most one row per email; of the register
\* requests for one email at most one is answered "created", a row exists
\* once one was answered "created" or "conflict", and a register begun after a
\* created one, with the same email and a valid password, is answered
\* "conflict" (or "database error" when its existence check fails in the store).
RegisterOf(p, e) == req[p].op = "register" /\ req[p].email = e

C4_OneRecordPerEmail ==
    /\ \A u, v \in users : u.email = v.email => u = v
    /\ \A u, v \in users : u.id = v.id => u = v
    /\ \A e \in Emails, p, q \in Procs :
          (/\ Done(p) /\ Done(q)
           /\ RegisterOf(p, e) /\ RegisterOf(q, e)
           /\ resp[p].status = 201 /\ resp[q].status = 201) => p = q
    /\ \A e \in Emails, p \in Procs :
          (Done(p) /\ RegisterOf(p, e) /\ resp[p].status \in {201, 409})
          => \E u \in users : u.email = e
    /\ \A e \in Emails, p, q \in Procs :
          (/\ p \in pred[q]
           /\ RegisterOf(p, e) /\ RegisterOf(q, e)
           /\ resp[p].status = 201
           /\ ValidPassword(req[q].password)
           /\ Done(q)) => resp[q] \in {ConflictResp, DbErrorResp}

C4_Witness ==
    \E p, q \in Procs :
        /\ p \in pred[q]
        /\ RegisterOf(p, EmailA) /\ RegisterOf(q, EmailA)
        /\ resp[p].status = 201
        /\ Done(q)
        /\ resp[q] = ConflictResp
        /\ Cardinality({u \in users : u.email = EmailA}) = 1

\* C5: a register request whose INSERT finds the email already in the table
\* (both requests passed the existence check) is answered "conflict".
C5_RaceLoserGetsConflict ==
    [][\A p \in Procs :
          (/\ pc[p] = "reg_insert"
           /\ pc'[p] = "idle"
           /\ resp'[p] # HashFailedResp
           /\ \E u \in users : u.email = req[p].email)
          => resp'[p] = ConflictResp]_vars

\* C6: a login for an email without a record and a login for an email with a
\* record whose hash the password does not match get the same response, the
\* 401 "Invalid email or password".
LoginUnknown(p) ==
    /\ Done(p) /\ req[p].op = "login"
    /\ resp[p].status # 500
    /\ loc[p].user = NoRow

LoginMismatch(p) ==
    /\ Done(p) /\ req[p].op = "login"
    /\ loc[p].user # NoRow
    /\ ~verify_password(req[p].password, loc[p].user.password_hash)

C6_LoginIndistinguishable ==
    \A p, q \in Procs :
        (LoginUnknown(p) /\ LoginMismatch(q))
        => /\ resp[p] = resp[q]
           /\ resp[p].status = 401

C6_Witness ==
    \E p, q \in Procs :
        /\ LoginUnknown(p) /\ LoginMismatch(q)
        /\ req[p].email = EmailC
        /\ req[q].email = EmailA

\* C7: forgot_password answers an email with a user record and an email
\* without one with the same status and the same message.
ForgotFound(p) == Done(p) /\ req[p].op = "forgot" /\ loc[p].user # NoRow
ForgotNotFound(p) == Done(p) /\ req[p].op = "forgot" /\ loc[p].user = NoRow

C7_ForgotIndistinguishable ==
    \A p, q \in Procs :
        (ForgotNotFound(p) /\ ForgotFound(q))
        => /\ resp[p].status = resp[q].status
           /\ resp[p].body.message = resp[q].body.message

\* C8: forgot_password always reports success: when the lookup finds no
\* user or fails, and when the token's insert fails.
C8_ForgotNeverFails ==
    \A p \in Procs :
        (Done(p) /\ req[p].op = "forgot")
        => /\ resp[p].status = 200
           /\ DOMAIN resp[p].body \subseteq {"message", "token"}

C8_Witness ==
    \E p, q \in Procs :
        /\ ForgotFound(p)
        /\ loc[p].tok = NoRow
        /\ loc[p].log = DbErrorLine
        /\ ForgotNotFound(q)

\* C9: the guard authenticates exactly the requests whose Authorization
\* header is "Bearer " followed by a token the service issued, unaltered and
\* not expired for the Token Service at that moment; the identity is the
\* token's subject; every other request gets the one 401 outcome.
C9_GuardIffVerified ==
    guard # NoGuard =>
        LET h == guard.header
            o == guard.outcome
            issued == {k \in held : k.token = h.jwt /\ guard.at <= k.token[2].exp + Leeway}
        IN /\ o \in {Unauthorized} \cup {Authenticated(s) : s \in Subjects}
           /\ (o # Unauthorized) <=> (h.some /\ h.text = BearerPrefix /\ issued # {})
           /\ (o # Unauthorized) => \A k \in issued : o = Authenticated(k.sub)
                                                    /\ k.sub = k.token[2].sub

C9_Witness ==
    /\ guard.outcome \in {Authenticated(s) : s \in Subjects}
    /\ guard.at > 0

\* C10: a token verified at the instant it was issued for s is accepted, with
\* sub = s and exp = iat + 24 hours.
C10_IssueThenVerify ==
    \A k \in held :
        k.token[2].iat = now
        => LET r == verify_token([text |-> <<>>, jwt |-> k.token])
           IN /\ r.ok
              /\ r.claims.sub = k.sub
              /\ r.claims.exp = r.claims.iat + 24 * 3600

C10_Witness ==
    \E k \in held : k.token[2].iat = now /\ now > 0

\* C11: a session token issued at t is rejected by every guard evaluation
\* made later than t + 24 hours, whatever the header's token otherwise is.
C11_RejectedAfterWindow ==
    guard # NoGuard =>
        \A k \in held :
            (/\ guard.header = Header(BearerPrefix, k.token)
             /\ guard.at > k.token[2].iat + JwtTtl)
            => guard.outcome = Unauthorized

\* C12: with the signing secret absent from the environment the service
\* handles no request, and no login or guarded request is the first to find
\* the secret missing.
C12_NoSecretNoService ==
    /\ ~JwtSecret.ok => /\ \A p \in Procs : pc[p] = "idle" /\ resp[p] = NoResp
                        /\ guard = NoGuard
    /\ \A p \in Procs : resp[p] # SecretPanicResp
    /\ guard.outcome # Panicked

\* C13: a whoami request whose header the guard authenticates is answered
\* with the id, email and created_at of the user whose id is the token's
\* subject, and with "User not found" when no user has that id (a failure of
\* the store aside).
C13_WhoamiReturnsSubject ==
    \A p \in Procs :
        (Done(p) /\ req[p].op = "whoami" /\ from_request(req[p].header).kind = "Success")
        => LET user_data == FindUserById(from_request(req[p].header).user_id)
           IN \/ resp[p] = DbErrorResp
              \/ user_data # NoRow /\ resp[p] = WhoamiOkResp(user_data)
              \/ user_data = NoRow /\ resp[p] = UserNotFoundResp

\* The text holds no '@'.
NoAtSign(e) == \A i \in DOMAIN e : e[i] # "@"

\* p is a completed register whose email or password is invalid.
InvalidRegister(p) ==
    /\ Done(p)
    /\ req[p].op = "register"
    /\ (NoAtSign(req[p].email) \/ ~ValidPassword(req[p].password))

\* C14: register with an email without '@' or a password under 6 characters
\* is answered 400 without a statement sent to the store and without a row
\* created: the email's message when the email is invalid (whatever the
\* password), the password's otherwise; no row of users has such an email or
\* password.
C14_InvalidRegisterRejectedFirst ==
    /\ \A p \in Procs :
          InvalidRegister(p)
          => /\ resp[p].status = 400
             /\ resp[p] = IF NoAtSign(req[p].email)
                          THEN ErrorResp(400, "Invalid email format")
                          ELSE ErrorResp(400, "Password must be at least 6 characters long")
             /\ loc[p].sql = <<>>
             /\ loc[p].user = NoRow
    /\ \A u \in users :
          /\ ~NoAtSign(u.email)
          /\ \E w \in Passwords : ValidPassword(w) /\ u.password_hash = hash_password(w)

C14_Witness ==
    \E p, q \in Procs :
        /\ InvalidRegister(p)
        /\ NoAtSign(req[p].email)
        /\ ~ValidPassword(req[p].password)
        /\ InvalidRegister(q)
        /\ ~NoAtSign(req[q].email)
        /\ users # {}

\* p is a completed reset_password whose token row, as read, was used and
\* had expired before the request arrived.
ExpiredAndUsed(p) ==
    /\ Done(p)
    /\ req[p].op = "reset"
    /\ loc[p].tok # NoRow
    /\ loc[p].tok.used
    /\ loc[p].tok.expires_at < req[p].at

\* C15: reset_password with a token that is both expired and used answers
\* "Reset token has expired", not "Reset token has already been used".
C15_ExpiredBeforeUsed ==
    \A p \in Procs :
        ExpiredAndUsed(p)
        => /\ resp[p] = ErrorResp(400, "Reset token has expired")
           /\ resp[p] # AlreadyUsedResp

C15_Witness == \E p \in Procs : ExpiredAndUsed(p)

\* p is a completed reset_password with a valid password whose token row was
\* read, and whose checks ran at the instant now.
CheckedNow(p) ==
    /\ Done(p)
    /\ req[p].op = "reset"
    /\ loc[p].tok # NoRow
    /\ req[p].at = now

MarkFollowsUpdate(p) ==
    \A i \in DOMAIN loc[p].sql :
        loc[p].sql[i].stmt = "mark_used"
        => /\ i > 1
           /\ loc[p].sql[i - 1] = [stmt |-> "update_password", ok |-> TRUE]

\* p is a completed reset_password that failed in hashing or in the update.
ResetFailed(p) ==
    /\ Done(p)
    /\ req[p].op = "reset"
    /\ resp[p] \in {HashFailedResp, ResetFailedResp}

\* A request that failed in hashing sent no update; one whose update failed
\* is answered 500 "Failed to reset password"; neither sent mark-used.
FailedResetSentNoMark(p) ==
    /\ ResetFailed(p)
       => /\ resp[p].status = 500
          /\ \A i \in DOMAIN loc[p].sql : loc[p].sql[i].stmt # "mark_used"
          /\ resp[p] = HashFailedResp
               => \A i \in DOMAIN loc[p].sql : loc[p].sql[i].stmt # "update_password"
    /\ (/\ Done(p)
        /\ req[p].op = "reset"
        /\ loc[p].sql # <<>>
        /\ loc[p].sql[Len(loc[p].sql)] = [stmt |-> "update_password", ok |-> FALSE])
       => resp[p] = ErrorResp(500, "Failed to reset password")

\* The step in which p returns the failure of hashing or of the update.
ReturnsResetFailure(p) ==
    /\ pc[p] \in {"rp_check", "rp_update"}
    /\ pc'[p] = "idle"
    /\ resp'[p] \in {HashFailedResp, ResetFailedResp}

\* C17: within a reset_password request the password update comes strictly
\* before mark-used, which is sent only after the update succeeded; when
\* hashing or the update fails the request is answered 500 and the step that
\* returns leaves every token's used flag (and every password) as it was.
C17_UpdateBeforeMark ==
    /\ [](\A p \in Procs : MarkFollowsUpdate(p) /\ FailedResetSentNoMark(p))
    /\ [][\A p \in Procs :
            ReturnsResetFailure(p) => tokens' = tokens /\ users' = users]_vars

C17_Witness ==
    \E p, q \in Procs :
        /\ ResetFailed(p)
        /\ resp[p] = ResetFailedResp
        /\ ~FindToken(req[p].token).used
        /\ Done(q)
        /\ req[q].op = "reset"
        /\ resp[q] = HashFailedResp

\* p is a completed reset_password whose password update succeeded and
\* whose mark-used failed.
MarkFailed(p) ==
    /\ Done(p)
    /\ req[p].op = "reset"
    /\ Len(loc[p].sql) = 3
    /\ loc[p].sql[2] = [stmt |-> "update_password", ok |-> TRUE]
    /\ loc[p].sql[3] = [stmt |-> "mark_used", ok |-> FALSE]

\* C18: when mark-used fails after the password update succeeded,
\* reset_password still answers 200 "Password reset successfully" and the
\* failure is written to the log.
C18_MarkFailureLogged ==
    \A p \in Procs :
        MarkFailed(p)
        => /\ resp[p] = ResetOkResp
           /\ loc[p].log # <<>>

\* The row t of this state is the row t2 of the next one, its used flag
\* aside, which went at most from false to true.
SameTokenRow(t, t2) ==
    /\ t2.token = t.token
    /\ t2.user_id = t.user_id
    /\ t2.expires_at = t.expires_at
    /\ t.used => t2.used

\* The step is the return of a reset_password that presented the token.
RedeemedBy(p, token) ==
    /\ req[p].op = "reset"
    /\ req[p].token = token
    /\ pc[p] = "rp_mark"
    /\ pc'[p] = "idle"
    /\ resp'[p] = ResetOkResp

\* C19: no step of register, login, forgot_password or reset_password
\* deletes a reset token or changes its token, user_id or expires_at; a used
\* flag changes only from false to true, in the mark-used of a
\* reset_password that presented that very token.
C19_TokensOnlyMarkedUsed ==
    [][\A t \in tokens :
          /\ Cardinality({t2 \in tokens' : t2.token = t.token}) = 1
          /\ \E t2 \in tokens' :
                /\ SameTokenRow(t, t2)
                /\ t2.used # t.used => \E p \in Procs : RedeemedBy(p, t.token)]_vars

C19_Witness ==
    \E t, o \in tokens :
        /\ t.user_id = o.user_id
        /\ t.used
        /\ ~o.used
        /\ \E p \in Procs : Done(p) /\ req[p].op = "reset" /\ req[p].token = t.token
                              /\ resp[p] = ResetOkResp

\* The answers of reset_password that reject the request.
ResetRejections ==
    {ErrorResp(400, "Password must be at least 6 characters long"),
     ErrorResp(400, "Invalid or expired reset token"),
     ErrorResp(400, "Reset token has expired"),
     ErrorResp(400, "Reset token has already been used"),
     ErrorResp(500, "Database error occurred")}

\* p is a completed reset_password that was rejected.
Rejected(p) == Done(p) /\ req[p].op = "reset" /\ resp[p] \in ResetRejections

\* Each cause of rejection is answered by its rejection: a short password
\* before any statement, a failed lookup, no row, a row read used, a row
\* that had expired when the request arrived.
RejectedForCause(p) ==
    (Done(p) /\ req[p].op = "reset")
    => /\ ~ValidPassword(req[p].password)
          => resp[p] = ErrorResp(400, "Password must be at least 6 characters long")
             /\ loc[p].sql = <<>>
       /\ loc[p].sql = Stmt("select_token", FALSE)
          => resp[p] = ErrorResp(500, "Database error occurred")
       /\ (loc[p].sql = Stmt("select_token", TRUE) /\ loc[p].tok = NoRow)
          => resp[p] = ErrorResp(400, "Invalid or expired reset token")
       /\ (loc[p].tok # NoRow /\ loc[p].tok.used)
          => resp[p] \in {ErrorResp(400, "Reset token has expired"),
                          ErrorResp(400, "Reset token has already been used")}
       /\ (loc[p].tok # NoRow /\ loc[p].tok.expires_at < req[p].at)
          => resp[p] = ErrorResp(400, "Reset token has expired")

\* A rejected request sent the token lookup at most, and computed no hash.
RejectedWroteNothing(p) ==
    Rejected(p)
    => /\ loc[p].sql \in {<<>>, Stmt("select_token", FALSE), Stmt("select_token", TRUE)}
       /\ loc[p].hash = NoRow

\* The step in which a reset_password is rejected: on arrival, or after the
\* checks on the row read.
ReturnsRejection(p) ==
    /\ req'[p].op = "reset"
    /\ pc'[p] = "idle"
    /\ resp'[p] \in ResetRejections
    /\ \/ pc[p] = "rp_check"
       \/ pc[p] = "idle" /\ nreq' = nreq + 1

\* C20: a reset_password rejected for a short password, an unknown, expired
\* or used token, or a failed lookup leaves every password hash and every
\* used flag as they were; the length test comes before any statement.
C20_RejectedResetChangesNothing ==
    /\ [](\A p \in Procs : RejectedForCause(p) /\ RejectedWroteNothing(p))
    /\ [][\A p \in Procs :
            ReturnsRejection(p) => users' = users /\ tokens' = tokens]_vars

C20_Witness ==
    \E p, q \in Procs :
        /\ Rejected(p)
        /\ resp[p] = ExpiredResp
        /\ Rejected(q)
        /\ ~ValidPassword(req[q].password)
        /\ FindToken(req[q].token) # NoRow
        /\ ~FindToken(req[q].token).used

\* p is a completed reset_password answered 200 whose password update is the
\* latest of its user.
LatestReset(p) ==
    /\ Done(p)
    /\ req[p].op = "reset"
    /\ resp[p] = ResetOkResp
    /\ p \in latest.update

\* q is a completed login by the email of user u.
LoginOf(q, u) == Done(q) /\ req[q].op = "login" /\ req[q].email = u.email

\* The login was answered 200 with a token and the user's public fields.
LoginSucceeded(q, u) ==
    /\ resp[q].status = 200
    /\ resp[q].body.user.id = UuidToString(u.id)
    /\ resp[q].body.user.email = u.email

\* C21: a login that begins after reset_password succeeded for user u with
\* the new password w, no later reset of u having updated the password,
\* succeeds with w and is answered "Invalid email or password" with any
\* other password, the registered one included; the logins of a user no
\* reset token was made for succeed with the registered password only.
C21_LoginFollowsReset ==
    /\ \A p, q \in Procs : \A u \in users :
          (LatestReset(p) /\ loc[p].tok.user_id = u.id /\ LoginOf(q, u) /\ p \in pred[q])
          => IF req[q].password = req[p].password
             THEN LoginSucceeded(q, u)
             ELSE resp[q] = ErrorResp(401, "Invalid email or password")
    /\ \A q \in Procs : \A u \in users :
          (LoginOf(q, u) /\ \A t \in tokens : t.user_id # u.id)
          => IF req[q].password = RegisteredPassword
             THEN LoginSucceeded(q, u)
             ELSE resp[q] = ErrorResp(401, "Invalid email or password")

C21_Witness ==
    \E p, q \in Procs : \E u \in users :
        /\ LatestReset(p)
        /\ loc[p].tok.user_id = u.id
        /\ LoginOf(q, u)
        /\ p \in pred[q]
        /\ req[q].password = RegisteredPassword
        /\ resp[q].status = 401
        /\ u.password_hash = hash_password(req[p].password)

\* The guard was last evaluated on the token the login q returned, after the
\* reset p of the same user had succeeded; q had returned before p began.
GuardAfterReset(q, p) ==
    /\ Done(q)
    /\ req[q].op = "login"
    /\ resp[q].status = 200
    /\ Done(p)
    /\ req[p].op = "reset"
    /\ resp[p] = ResetOkResp
    /\ q \in pred[p]
    /\ loc[p].tok.user_id = loc[q].user.id
    /\ p \in latest.guard
    /\ guard.header = Header(BearerPrefix, resp[q].body.token)

\* C22: after reset_password succeeded for user u, the guard still accepts,
\* as u, a session token a login of u returned before the reset began, at
\* every instant up to the token's exp = iat + 24 hours.
C22_ResetKeepsSessions ==
    \A p, q \in Procs :
        (GuardAfterReset(q, p) /\ guard.at <= resp[q].body.token[2].iat + 24 * 3600)
        => /\ guard.outcome = Authenticated(UuidToString(loc[q].user.id))
           /\ resp[q].body.token[2].exp = resp[q].body.token[2].iat + 24 * 3600

C22_Witness ==
    \E p, q \in Procs :
        /\ GuardAfterReset(q, p)
        /\ guard.at = resp[q].body.token[2].exp
        /\ guard.outcome = Authenticated(UuidToString(loc[q].user.id))
        /\ \E u \in users : /\ u.id = loc[q].user.id
                             /\ u.password_hash = hash_password(req[p].password)
                             /\ ~verify_password(req[q].password, u.password_hash)

====
